---- MODULE Spec2Model ----
(***************************************************************************)
(* Model of the expression builder of the Candi compiler front end        *)
(* (src/Candi_Compiler/parser.hpp).  build_statement is a pure function   *)
(* of a token range; it is modelled as a recursive operator over a token  *)
(* vector, and the specification applies it to every bounded token        *)
(* sequence.  Tokens are represented by their kind (Tk::eType); a token   *)
(* is identified by its position in the vector, which is what the source  *)
(* span of a node records.                                                *)
(***************************************************************************)
EXTENDS Integers, Sequences, FiniteSets, TLC

VARIABLES tokens, pc, result

vars == <<tokens, pc, result>>

(***************************************************************************)
(* Bounds.                                                                 *)
(***************************************************************************)
\* Longest token sequence drawn freely over TokenKinds.
MaxLen == 5

\* Longest expression of a statement drawn freely over TokenKinds.
StmtLen == 4

(***************************************************************************)
(* Token kinds (Tk::eType) that reach the expression builder.             *)
(***************************************************************************)
Atoms == {"number_literal", "alnumus", "real_literal"}

BinaryOps == {"simple_assignment", "addition", "subtraction",
              "multiplication", "period"}

UnaryOps == {"negation"}

TokenKinds == Atoms \cup BinaryOps \cup UnaryOps \cup {"open_scope", "close_scope"}

\* Keywords that lead a statement.
Keywords == {"type_", "var_", "func_", "class_", "return_", "if_", "elif_", "else_",
             "while_", "for_", "on_", "break_", "continue_", "print_"}

\* Type sigils (candi special objects).
Sigils == {"atype_", "avalue_", "aidentity_", "aint_", "auint_", "areal_", "aoctet_",
           "abit_", "apointer_", "aarray_"}

Openers == {"open_scope", "open_frame", "open_list"}

Closers == {"close_scope", "close_frame", "close_list"}

Min(a, b) == IF a < b THEN a ELSE b

(***************************************************************************)
(* Syntax traits of a token kind.                                          *)
(***************************************************************************)
\* Precedence of a token kind, lowest to highest; kinds that are no operator
\* have none.
importance(k) ==
    CASE k = "simple_assignment" -> 1
      [] k \in {"addition", "subtraction"} -> 5
      [] k = "multiplication" -> 6
      [] k = "negation" -> 7
      [] k \in {"period", "open_scope"} -> 8
      [] OTHER -> 0

associativity(k) ==
    CASE k \in {"simple_assignment", "negation"} -> "right_"
      [] k \in {"addition", "subtraction", "multiplication", "period", "open_scope"} -> "left_"
      [] OTHER -> "none_"

operation(k) ==
    CASE k \in UnaryOps -> "unary_"
      [] k \in BinaryOps -> "binary_"
      [] OTHER -> "none_"

(***************************************************************************)
(* AST nodes: kind, source span [tb, te) in token positions, children.    *)
(***************************************************************************)
\* Node(type, begin, end)
Node(t, b, e) == [type |-> t, tb |-> b, te |-> e, ch |-> <<>>]

\* Node(type): a node constructed from its kind alone carries no span.
NodeOfType(t) == Node(t, 0, 0)

\* std::nullopt for the optional last_pass.
nullopt == NodeOfType("nullopt")

\* A std::runtime_error leaving build_statement; the message is kept as the
\* kind of the only child.
Throw(msg) == [type |-> "throw", tb |-> 0, te |-> 0, ch |-> <<NodeOfType(msg)>>]

IsThrow(n) == n.type = "throw"

\* Node::push_back; an exception raised while the argument is evaluated
\* propagates.
push_back(n, c) ==
    IF IsThrow(n) THEN n
    ELSE IF IsThrow(c) THEN c
    ELSE [n EXCEPT !.ch = Append(@, c)]

\* Node::push_front
push_front(n, c) ==
    IF IsThrow(n) THEN n
    ELSE IF IsThrow(c) THEN c
    ELSE [n EXCEPT !.ch = <<c>> \o @]

\* Node::front
front(n) == n.ch[1]

(***************************************************************************)
(* TokenCursor(begin, end) over the token vector tk.                       *)
(***************************************************************************)
\* The kind the cursor reads at position p; at its end it reads eof.
TypeAt(tk, p, e) == IF p >= e \/ p > Len(tk) THEN "eof" ELSE tk[p]

\* TokenCursor::next(n): the cursor advanced by n, never past its end.
next(p, n, e) == Min(p + n, e)

\* The node kind that mirrors a token kind.
NodeTypeOf(k) ==
    CASE k = "number_literal" -> "number_literal_"
      [] k = "alnumus" -> "alnumus_"
      [] k = "real_literal" -> "real_literal_"
      [] k = "simple_assignment" -> "simple_assignment_"
      [] k = "addition" -> "addition_"
      [] k = "subtraction" -> "subtraction_"
      [] k = "multiplication" -> "multiplication_"
      [] k = "period" -> "period_"
      [] k = "negation" -> "negation_"
      [] k = "open_scope" -> "open_scope_"
      [] k = "close_scope" -> "close_scope_"
      [] k \in Keywords \cup Sigils -> k
      [] k = "eos" -> "eos_"
      [] k = "comma" -> "comma_"
      [] k = "ellipsis" -> "ellipsis_"
      [] k = "open_frame" -> "open_frame_"
      [] k = "close_frame" -> "close_frame_"
      [] k = "open_list" -> "open_list_"
      [] k = "close_list" -> "close_list_"
      [] OTHER -> "eof_"

\* TokenCursor::to_statement: the leaf node of the token under the cursor.
to_statement(tk, p, e) == Node(NodeTypeOf(TypeAt(tk, p, e)), p, p + 1)

(***************************************************************************)
(* find_scope(begin, end): the parenthesis pair opened at begin.           *)
(***************************************************************************)
RECURSIVE FindClose(_, _, _, _)
\* Position of the close_scope that brings the depth back to zero, or 0.
FindClose(tk, p, e, depth) ==
    IF p >= e THEN 0
    ELSE IF tk[p] = "open_scope" THEN FindClose(tk, p + 1, e, depth + 1)
    ELSE IF tk[p] = "close_scope"
         THEN IF depth = 1 THEN p ELSE FindClose(tk, p + 1, e, depth - 1)
    ELSE FindClose(tk, p + 1, e, depth)

find_scope(tk, b, e) ==
    LET close == IF TypeAt(tk, b, e) = "open_scope"
                 THEN FindClose(tk, b + 1, e, 1) ELSE 0
    IN  IF close = 0
        THEN [valid |-> FALSE, scope_begin |-> b, scope_end |-> e]
        ELSE [valid |-> TRUE, scope_begin |-> b, scope_end |-> close + 1]

contained_begin(s) == s.scope_begin + 1

contained_end(s) == s.scope_end - 1

is_empty(s) == contained_begin(s) = contained_end(s)

(***************************************************************************)
(* build_statement(begin, end, last_pass)                                  *)
(***************************************************************************)
RECURSIVE build_statement(_, _, _, _)

\* Fresh start on a unary operator.
fresh_unary(tk, it, end) ==
    LET unary_operation == to_statement(tk, it, end)
        operand == to_statement(tk, next(it, 1, end), end)
        following == next(it, 2, end)
    IN  IF following = end
        THEN push_back(unary_operation, operand)
        ELSE IF importance(TypeAt(tk, it, end)) < importance(TypeAt(tk, following, end))
        THEN push_back(unary_operation,
                 build_statement(tk, following, end,
                     push_back(to_statement(tk, following, end), operand)))
        ELSE build_statement(tk, following, end,
                 push_back(to_statement(tk, following, end),
                     push_back(unary_operation, operand)))

\* fresh_scope with the parentheses kept as a node around the contained
\* expression.
fresh_scope_kept(tk, it, end) ==
    LET scope == find_scope(tk, it, end)
    IN  IF ~scope.valid THEN Throw("Mismatched parenthesis.")
        ELSE IF is_empty(scope) THEN Throw("Empty parenthesis.")
        ELSE push_back(to_statement(tk, it, end),
                 build_statement(tk, contained_begin(scope), contained_end(scope), nullopt))

\* Fresh start on an open parenthesis.
fresh_scope(tk, it, end) ==
    LET scope == find_scope(tk, it, end)
    IN  IF ~scope.valid THEN Throw("Mismatched parenthesis.")
        ELSE IF is_empty(scope) THEN Throw("Empty parenthesis.")
        ELSE IF scope.scope_end = end
        THEN build_statement(tk, contained_begin(scope), contained_end(scope), nullopt)
        ELSE build_statement(tk, scope.scope_end, end,
                 push_back(to_statement(tk, scope.scope_end, end),
                     build_statement(tk, contained_begin(scope), contained_end(scope), nullopt)))

\* Fresh start on anything else: the first token is taken to be an operand.
fresh_operand(tk, it, end) ==
    LET following == next(it, 1, end)
        arg_scope == find_scope(tk, following, end)
        function_call ==
            push_back(push_back(Node("function_call_", it, arg_scope.scope_end),
                                to_statement(tk, it, end)),
                      Node("arguments_", contained_begin(arg_scope), contained_end(arg_scope)))
    IN  IF following = end THEN to_statement(tk, it, end)
        ELSE IF TypeAt(tk, following, end) = "open_scope"
        THEN IF ~arg_scope.valid
             THEN Throw("Mismatched parenthesis in arguments to function call operator.")
             ELSE IF arg_scope.scope_end = end THEN function_call
             ELSE build_statement(tk, arg_scope.scope_end, end,
                      push_back(to_statement(tk, arg_scope.scope_end, end), function_call))
        ELSE build_statement(tk, following, end,
                 push_back(to_statement(tk, following, end), to_statement(tk, it, end)))

\* The right-hand operand of the operator at it, when nothing follows it:
\* a unary operation, a parenthesised expression, a call or a single token.
\* scope_from is the position handed to find_scope for a parenthesised operand.
last_operand(tk, it, end, scope_from, optional_function_call) ==
    LET operand == next(it, 1, end)
        scope == find_scope(tk, scope_from, end)
    IN  IF operation(TypeAt(tk, operand, end)) = "unary_"
        THEN push_back(to_statement(tk, operand, end), to_statement(tk, next(it, 2, end), end))
        ELSE IF TypeAt(tk, operand, end) = "open_scope"
        THEN build_statement(tk, contained_begin(scope), contained_end(scope), nullopt)
        ELSE IF optional_function_call.type # "none_" THEN optional_function_call
        ELSE to_statement(tk, operand, end)

\* Last pass: the operator at it is completed with its right-hand operand.
last_pass_complete(tk, it, end, last_pass, optional_function_call) ==
    IF associativity(TypeAt(tk, it, end)) = "right_"
    THEN push_front(last_pass, last_operand(tk, it, end, it, optional_function_call))
    ELSE push_back(last_pass, last_operand(tk, it, end, next(it, 1, end), optional_function_call))

\* The following operator is more important: the rest of the expression,
\* from the operand on, is solved first and becomes the other operand.
split_expression(tk, it, end, last_pass) ==
    IF associativity(TypeAt(tk, it, end)) = "right_"
    THEN push_front(last_pass, build_statement(tk, next(it, 1, end), end, nullopt))
    ELSE push_back(last_pass, build_statement(tk, next(it, 1, end), end, nullopt))

\* The following operator is not more important: the operator at it is
\* finished and becomes the left-hand side of the following operator.
finished_expression(tk, it, end, last_pass, optional_function_call) ==
    LET operand == next(it, 1, end)
        scope == find_scope(tk, operand, end)
        empty == NodeOfType(last_pass.type)
        unary == push_back(to_statement(tk, operand, end), to_statement(tk, next(it, 2, end), end))
    IN  IF associativity(TypeAt(tk, it, end)) = "right_"
        THEN IF TypeAt(tk, operand, end) = "open_scope"
             THEN push_back(push_back(empty,
                      build_statement(tk, contained_begin(scope), contained_end(scope), nullopt)),
                      front(last_pass))
             ELSE IF operation(TypeAt(tk, operand, end)) = "unary_"
             THEN push_back(push_back(empty, unary), front(last_pass))
             ELSE push_back(push_back(empty, to_statement(tk, operand, end)), front(last_pass))
        ELSE IF TypeAt(tk, operand, end) = "open_scope"
             THEN push_back(push_back(empty, front(last_pass)),
                      build_statement(tk, contained_begin(scope), contained_end(scope), nullopt))
             ELSE IF operation(TypeAt(tk, operand, end)) = "unary_"
             THEN push_back(push_back(empty, front(last_pass)), unary)
             ELSE IF optional_function_call.type # "none_"
             THEN push_back(push_back(empty, front(last_pass)), optional_function_call)
             ELSE push_back(push_back(empty, front(last_pass)), to_statement(tk, operand, end))

\* A variant of the operand validation that lets an empty parenthesis pass.
operand_error_without_empty_check(tk, it, end) ==
    LET operand == next(it, 1, end)
        kind == TypeAt(tk, operand, end)
        scope == find_scope(tk, operand, end)
    IN  IF operand = end \/ kind = "eof"
        THEN "End of expression after binary operator. Operator must be followed by operand."
        ELSE IF kind \in {"number_literal", "alnumus"} THEN ""
        ELSE IF operation(kind) = "unary_"
        THEN IF next(it, 2, end) = end
             THEN "End of expression after unary operator. Operator must be followed by operand."
             ELSE ""
        ELSE IF kind = "open_scope"
        THEN IF ~scope.valid THEN "Mismatched parenthesis." ELSE ""
        ELSE "Invalid right hand side operand. Operator must be followed by operand."

\* A variant of the operand validation that validates nothing.
operand_error_never(tk, it, end) == ""

\* Validation of the right-hand operand of the operator at it: the message
\* of the error raised, or "" when the operand is accepted.
operand_error(tk, it, end) ==
    LET operand == next(it, 1, end)
        kind == TypeAt(tk, operand, end)
        scope == find_scope(tk, operand, end)
    IN  IF operand = end \/ kind = "eof"
        THEN "End of expression after binary operator. Operator must be followed by operand."
        ELSE IF kind \in {"number_literal", "alnumus"} THEN ""
        ELSE IF operation(kind) = "unary_"
        THEN IF next(it, 2, end) = end
             THEN "End of expression after unary operator. Operator must be followed by operand."
             ELSE ""
        ELSE IF kind = "open_scope"
        THEN IF ~scope.valid THEN "Mismatched parenthesis."
             ELSE IF is_empty(scope) THEN "Empty parenthesis."
             ELSE ""
        ELSE "Invalid right hand side operand. Operator must be followed by operand."

\* The position of the operator that follows the right-hand operand.
following_operator(tk, it, end) ==
    LET operand == next(it, 1, end)
    IN  IF operation(TypeAt(tk, operand, end)) = "unary_" THEN next(it, 3, end)
        ELSE IF TypeAt(tk, operand, end) = "open_scope"
        THEN find_scope(tk, operand, end).scope_end
        ELSE next(it, 2, end)

\* A following pass: it is at a binary operator whose left-hand side is in
\* last_pass.
following_pass(tk, it, end, last_pass) ==
    LET after_operand == following_operator(tk, it, end)
        is_call == TypeAt(tk, after_operand, end) = "open_scope"
        arg_scope == find_scope(tk, after_operand, end)
        function_call ==
            push_back(push_back(Node("function_call_", it, arg_scope.scope_end),
                                to_statement(tk, next(it, 1, end), end)),
                      Node("arguments_", contained_begin(arg_scope), contained_end(arg_scope)))
        next_operator_it == IF is_call THEN arg_scope.scope_end ELSE after_operand
        optional_function_call == IF is_call THEN function_call ELSE NodeOfType("none_")
    IN  IF operand_error(tk, it, end) # "" THEN Throw(operand_error(tk, it, end))
        ELSE IF is_call /\ ~arg_scope.valid
        THEN Throw("Mismatched parenthesis in arguments to function call operator.")
        ELSE IF next_operator_it = end
        THEN last_pass_complete(tk, it, end, last_pass, optional_function_call)
        ELSE IF importance(TypeAt(tk, it, end)) < importance(TypeAt(tk, next_operator_it, end))
        THEN split_expression(tk, it, end, last_pass)
        ELSE build_statement(tk, next_operator_it, end,
                 push_back(to_statement(tk, next_operator_it, end),
                     finished_expression(tk, it, end, last_pass, optional_function_call)))

build_statement(tk, begin, end, last_pass) ==
    IF IsThrow(last_pass) THEN last_pass
    ELSE IF last_pass = nullopt
    THEN IF operation(TypeAt(tk, begin, end)) = "unary_" THEN fresh_unary(tk, begin, end)
         ELSE IF TypeAt(tk, begin, end) = "open_scope" THEN fresh_scope(tk, begin, end)
         ELSE fresh_operand(tk, begin, end)
    ELSE following_pass(tk, begin, end, last_pass)

(***************************************************************************)
(* Statement scopes and token matching (parser_utils).                     *)
(***************************************************************************)
\* The kind of the token an iterator points at (it->type()); the token
\* vector ends with eof.
type_of(tk, p) == IF p >= 1 /\ p <= Len(tk) THEN tk[p] ELSE "eof"

RECURSIVE FindTerminator(_, _, _, _, _)
\* Position of the first token of kind close that is at bracket depth zero,
\* counting all three bracket families from p on, or 0.
FindTerminator(tk, p, e, close, depth) ==
    IF p >= e \/ p > Len(tk) THEN 0
    ELSE LET d == IF tk[p] \in Openers THEN depth + 1
                  ELSE IF tk[p] \in Closers THEN depth - 1
                  ELSE depth
         IN  IF d < 0 THEN 0
             ELSE IF tk[p] = close /\ d = 0 THEN p
             ELSE FindTerminator(tk, p + 1, e, close, d)

\* find_open_statement(open, close, begin, end): the range that starts with
\* a token of kind open and ends with the first close at depth zero.
find_open_statement(tk, open, close, b, e) ==
    LET last == IF type_of(tk, b) = open THEN FindTerminator(tk, b, e, close, 0) ELSE 0
    IN  IF last = 0
        THEN [valid |-> FALSE, scope_begin |-> b, scope_end |-> e]
        ELSE [valid |-> TRUE, scope_begin |-> b, scope_end |-> last + 1]

\* find_statement(open, close, begin, end); it differs from the open form
\* only where the opening kind is repeated at depth zero.
find_statement(tk, open, close, b, e) == find_open_statement(tk, open, close, b, e)

find_list(tk, b, e) == find_statement(tk, "open_list", "close_list", b, e)

\* find_forward(it, kinds): the tokens from it on have these kinds.
find_forward(tk, p, kinds) == \A i \in 1..Len(kinds) : type_of(tk, p + i - 1) = kinds[i]

(***************************************************************************)
(* ParsingResult and the results a ParsingProcess makes.                   *)
(***************************************************************************)
\* thrown marks an exception that leaves the routine instead of a result.
ParsingResult(node, it, valid) ==
    [node |-> node, it |-> it, valid |-> valid, thrown |-> FALSE]

make_error(cursor) == ParsingResult(NodeOfType("invalid_"), cursor, FALSE)

make_success(node, end) == ParsingResult(node, end, TRUE)

\* make_success(Node): the cursor is the end of the node's span.
make_success_node(node) == make_success(node, node.te)

\* throw std::runtime_error(msg)
Raise(msg) == [node |-> Throw(msg), it |-> 0, valid |-> FALSE, thrown |-> TRUE]

(***************************************************************************)
(* Literals and type sigils.                                               *)
(***************************************************************************)
ParseAlnumusLiteral(tk, begin, end) == make_success_node(Node("alnumus_", begin, begin + 1))

ParseCsoType(tk, begin, end) == make_success_node(Node("atype_", begin, begin + 1))

ParseCsoValue(tk, begin, end) == make_success_node(Node("avalue_", begin, begin + 1))

ParseCsoIdentity(tk, begin, end) == make_success_node(Node("aidentity_", begin, begin + 1))

ParseCsoReal(tk, begin, end) == make_success_node(Node("areal_", begin, begin + 1))

ParseCsoOctet(tk, begin, end) == make_success_node(Node("aoctet_", begin, begin + 1))

ParseCsoBit(tk, begin, end) == make_success_node(Node("abit_", begin, begin + 1))

\* scan_tokens_pack<constrained_int_type_mask>: &int [ -? n ... -? m ]
constrained_int_type_mask(tk, begin) ==
    \E first \in {<<>>, <<"subtraction">>} : \E second \in {<<>>, <<"subtraction">>} :
        find_forward(tk, begin, <<"aint_", "open_frame">> \o first
                                    \o <<"number_literal", "ellipsis">> \o second
                                    \o <<"number_literal", "close_frame">>)

ParseCsoInt(tk, begin, end) ==
    LET atype_node == NodeOfType("aint_")
        token(n) == to_statement(tk, next(begin, n, end), end)
        unary_minus(n) == push_back(token(n), token(n + 1))
    IN  IF constrained_int_type_mask(tk, begin)
        THEN IF TypeAt(tk, next(begin, 2, end), end) = "subtraction"
             THEN IF TypeAt(tk, next(begin, 5, end), end) = "subtraction"
                  THEN make_success(push_back(push_back(atype_node, unary_minus(2)),
                                              unary_minus(5)), next(begin, 8, end))
                  ELSE make_success(push_back(push_back(atype_node, unary_minus(2)),
                                              token(5)), next(begin, 7, end))
             ELSE IF TypeAt(tk, next(begin, 4, end), end) = "subtraction"
                  THEN make_success(push_back(push_back(atype_node, token(2)),
                                              unary_minus(4)), next(begin, 7, end))
                  ELSE make_success(push_back(push_back(atype_node, token(2)),
                                              token(4)), next(begin, 6, end))
        ELSE make_success_node(Node("aint_", begin, begin + 1))

ParseCsoUint(tk, begin, end) ==
    IF find_forward(tk, begin, <<"auint_", "open_frame", "number_literal", "ellipsis",
                                 "number_literal", "close_frame">>)
    THEN make_success(push_back(push_back(NodeOfType("auint_"),
                                          to_statement(tk, next(begin, 2, end), end)),
                                to_statement(tk, next(begin, 4, end), end)),
                      next(begin, 6, end))
    ELSE make_success(NodeOfType("auint_"), next(begin, 1, end))

RECURSIVE ParseCandiSpecialObject(_, _, _)

ParseCsoPointer(tk, begin, end) ==
    LET parse_result == ParseCandiSpecialObject(tk, next(begin, 2, end), end)
    IN  IF find_forward(tk, begin, <<"apointer_", "open_frame", "alnumus", "close_frame">>)
        THEN make_success(push_back(NodeOfType("apointer_"),
                                    to_statement(tk, next(begin, 2, end), end)),
                          next(begin, 4, end))
        ELSE IF find_forward(tk, begin, <<"apointer_", "open_frame">>)
        THEN IF parse_result.thrown THEN parse_result
             ELSE IF parse_result.valid
             THEN make_success(push_back(NodeOfType("apointer_"), parse_result.node),
                               parse_result.it + 1)
             ELSE Raise("ParseCsoPointer: Invalid CSO Type in &pointer type constraint.")
        ELSE Raise("ParseCsoPointer: Pointer must be contrained to a type.")

ParseCandiSpecialObject(tk, begin, end) ==
    CASE type_of(tk, begin) = "atype_" -> ParseCsoType(tk, begin, end)
      [] type_of(tk, begin) = "avalue_" -> ParseCsoValue(tk, begin, end)
      [] type_of(tk, begin) = "aidentity_" -> ParseCsoIdentity(tk, begin, end)
      [] type_of(tk, begin) = "aint_" -> ParseCsoInt(tk, begin, end)
      [] type_of(tk, begin) = "auint_" -> ParseCsoUint(tk, begin, end)
      [] type_of(tk, begin) = "areal_" -> ParseCsoReal(tk, begin, end)
      [] type_of(tk, begin) = "aoctet_" -> ParseCsoOctet(tk, begin, end)
      [] type_of(tk, begin) = "abit_" -> ParseCsoBit(tk, begin, end)
      [] type_of(tk, begin) = "apointer_" -> ParseCsoPointer(tk, begin, end)
      [] OTHER -> make_error(begin)

\* ParseCsoArray, the element type is an alnumus: &array [ name , n
array_of_alnumus(tk, begin, end) ==
    IF find_forward(tk, next(begin, 3, end), <<"comma", "number_literal">>)
    THEN make_success(push_back(push_back(NodeOfType("aarray_"),
                                          to_statement(tk, next(begin, 2, end), end)),
                                to_statement(tk, next(begin, 4, end), end)),
                      next(begin, 6, end))
    ELSE Raise("ParseCsoArray: aarray_ must have a value constraint. Invalid array size.")

\* ParseCsoArray, the element type is a type sigil: &array [ <cso> , n
array_of_cso(tk, end, parse_result) ==
    IF parse_result.thrown THEN parse_result
    ELSE IF ~parse_result.valid
    THEN Raise("ParseCsoArray: Invalid CSO Type in &array type constraint.")
    ELSE IF find_forward(tk, parse_result.it, <<"comma", "number_literal">>)
    THEN make_success(push_back(push_back(NodeOfType("aarray_"), parse_result.node),
                                to_statement(tk, parse_result.it + 1, end)),
                      parse_result.it + 3)
    ELSE Raise("ParseCsoArray: aarray_ must have a value constraint. Invalid array size.")

ParseCsoArray(tk, begin, end) ==
    IF find_forward(tk, begin, <<"aarray_", "open_frame", "alnumus">>)
    THEN array_of_alnumus(tk, begin, end)
    ELSE IF find_forward(tk, begin, <<"aarray_", "open_frame">>)
    THEN array_of_cso(tk, end, ParseCandiSpecialObject(tk, next(begin, 2, end), end))
    ELSE Raise("ParseCsoArray: aarray_ must be contrained to a type.")

(***************************************************************************)
(* Statements.                                                             *)
(***************************************************************************)
\* The result of ParseValueExpression once build_statement has returned
\* expr_node or thrown: an exception is caught and becomes an error result.
value_expression(begin, expr_node, it) ==
    IF IsThrow(expr_node) THEN make_error(begin) ELSE make_success(expr_node, it)

\* ParseValueExpression with the expression scope found.
value_expression_in(tk, begin, expr_scope) ==
    value_expression(begin, build_statement(tk, begin, contained_end(expr_scope), nullopt),
                     expr_scope.scope_end)

\* A variant of ParseValueExpression whose cursor stays on the closing eos.
ParseValueExpression_stops_at_eos(tk, begin, end) ==
    LET expr_scope == find_open_statement(tk, type_of(tk, begin), "eos", begin, end)
    IN  value_expression(begin, build_statement(tk, begin, contained_end(expr_scope), nullopt),
                         contained_end(expr_scope))

\* ParseValueExpression: the expression up to the closing eos.
ParseValueExpression(tk, begin, end) ==
    value_expression_in(tk, begin,
                        find_open_statement(tk, type_of(tk, begin), "eos", begin, end))

\* The result of ParseDirectiveReturn once build_statement has returned built
\* or thrown: an exception of build_statement is not caught.
return_statement(begin, statement_scope, built) ==
    IF IsThrow(built) THEN Raise(built.ch[1].type)
    ELSE make_success(
             push_back(Node("return_", begin, contained_end(statement_scope)),
                       push_back(Node("expression_", contained_begin(statement_scope),
                                      contained_end(statement_scope)), built)),
             statement_scope.scope_end)

ParseDirectiveReturn(tk, begin, end) ==
    LET statement_scope == find_statement(tk, "return_", "eos", begin, end)
    IN  IF ~statement_scope.valid THEN make_error(statement_scope.scope_end)
        ELSE return_statement(begin, statement_scope,
                              build_statement(tk, contained_begin(statement_scope),
                                              contained_end(statement_scope), nullopt))

\* ParseIdentifierStatement: <alnumus> = <number_literal> ;
ParseIdentifierStatement(tk, begin, end) ==
    IF type_of(tk, begin) # "alnumus" THEN make_error(begin)
    ELSE IF type_of(tk, begin + 1) # "simple_assignment" THEN make_error(begin + 1)
    ELSE IF type_of(tk, begin + 2) # "number_literal" THEN make_error(begin + 2)
    ELSE IF type_of(tk, begin + 3) # "eos" THEN make_error(begin + 3)
    ELSE make_success(
             push_back(push_back(push_back(Node("variable_assignment_", begin, begin + 3),
                                           Node("alnumus_", begin, begin + 1)),
                                 Node("simple_assignment_", begin + 1, begin + 2)),
                       Node("number_literal_", begin + 2, begin + 3)),
             begin + 4)

\* ParseDirectiveVar, anonymous declaration: var <alnumus> ;
anon_variable_definition(tk, begin, end) ==
    make_success(push_back(Node("anon_variable_definition_", begin, next(begin, 3, end)),
                           Node("alnumus_", next(begin, 1, end), next(begin, 2, end))),
                 next(begin, 3, end))

\* The result of the anonymous declaration with assignment once the value
\* expression is parsed.
anon_assingment(begin, end, expr) ==
    IF ~expr.valid THEN make_error(next(begin, 1, end))
    ELSE make_success(
             push_back(push_back(Node("anon_variable_definition_assingment_",
                                      begin, expr.it - 1),
                                 Node("alnumus_", next(begin, 1, end), next(begin, 2, end))),
                       expr.node),
             expr.it)

\* ParseDirectiveVar, anonymous declaration with assignment: the value
\* expression is parsed from the token after var on.
anon_variable_definition_assingment(tk, begin, end) ==
    anon_assingment(begin, end, ParseValueExpression(tk, next(begin, 1, end), end))

\* The node of var [<constraints>] <alnumus> ;
constrained_declaration(tk, begin, frame_scope) ==
    push_back(push_back(Node("constrained_variable_definition_", begin,
                             frame_scope.scope_end + 1),
                        Node("type_constraints_", contained_begin(frame_scope),
                             contained_end(frame_scope))),
              Node("alnumus_", frame_scope.scope_end, frame_scope.scope_end + 1))

\* A constrained definition node that leaves the assignment token out, as the
\* anonymous form does.
constrained_assignment_without_token(tk, begin, frame_scope, expr) ==
    push_back(push_back(push_back(
        Node("constrained_variable_definition_", begin, expr.it - 1),
        Node("type_constraints_", contained_begin(frame_scope), contained_end(frame_scope))),
        Node("alnumus_", frame_scope.scope_end, frame_scope.scope_end + 1)),
        expr.node)

\* The node of var [<constraints>] <alnumus> = <expr> ;
constrained_assignment(tk, begin, frame_scope, expr) ==
    push_back(push_back(push_back(push_back(
        Node("constrained_variable_definition_", begin, expr.it - 1),
        Node("type_constraints_", contained_begin(frame_scope), contained_end(frame_scope))),
        Node("alnumus_", frame_scope.scope_end, frame_scope.scope_end + 1)),
        Node("simple_assignment_", frame_scope.scope_end + 1, frame_scope.scope_end + 2)),
        expr.node)

\* The result of the constrained definition with assignment once the value
\* expression is parsed.
constrained_assingment(tk, begin, end, frame_scope, expr) ==
    IF ~expr.valid THEN make_error(next(begin, 3, end))
    ELSE make_success(constrained_assignment(tk, begin, frame_scope, expr), expr.it)

\* ParseDirectiveVar, constrained definition: var [ ... ] <alnumus> ...
constrained_variable_definition(tk, begin, end) ==
    LET frame_scope == find_statement(tk, "open_frame", "close_frame", next(begin, 1, end), end)
    IN  IF ~find_forward(tk, frame_scope.scope_end, <<"alnumus">>)
        THEN make_error(frame_scope.scope_end)
        ELSE IF type_of(tk, frame_scope.scope_end + 1) = "eos"
        THEN make_success(constrained_declaration(tk, begin, frame_scope),
                          frame_scope.scope_end + 2)
        ELSE IF type_of(tk, frame_scope.scope_end + 1) = "simple_assignment"
        THEN constrained_assingment(tk, begin, end, frame_scope,
                                    ParseValueExpression(tk, frame_scope.scope_end + 2, end))
        ELSE make_error(frame_scope.scope_end)

ParseDirectiveVar(tk, begin, end) ==
    IF find_forward(tk, begin, <<"var_", "alnumus", "eos">>)
    THEN anon_variable_definition(tk, begin, end)
    ELSE IF find_forward(tk, begin, <<"var_", "alnumus", "simple_assignment">>)
    THEN anon_variable_definition_assingment(tk, begin, end)
    ELSE IF find_forward(tk, begin, <<"var_", "open_frame">>)
    THEN constrained_variable_definition(tk, begin, end)
    ELSE make_error(begin)

\* ParseDirectiveType, the type expression is an alnumus.
type_definition_alnumus(tk, begin, end) ==
    LET cursor == next(begin, 1, end)
        alnumus_literal == ParseAlnumusLiteral(tk, next(cursor, 2, end), end)
    IN  IF ~alnumus_literal.valid THEN make_error(next(cursor, 2, end))
        ELSE IF TypeAt(tk, next(cursor, 3, end), end) # "eos"
        THEN make_error(next(cursor, 3, end))
        ELSE make_success(
                 push_back(push_back(push_back(
                     Node("type_definition_", begin, next(cursor, 3, end)),
                     Node("alnumus_", cursor, next(cursor, 1, end))),
                     Node("simple_assignment_", next(cursor, 1, end), next(cursor, 2, end))),
                     Node("aint_", next(cursor, 2, end), alnumus_literal.it)),
                 alnumus_literal.it + 2)

\* ParseDirectiveType, the type expression is a type sigil.
type_definition_cso(tk, begin, end) ==
    LET cursor == next(begin, 1, end)
        cso == ParseCandiSpecialObject(tk, next(cursor, 2, end), end)
    IN  IF cso.thrown THEN cso
        ELSE IF ~cso.valid THEN make_error(next(cursor, 2, end))
        ELSE IF type_of(tk, cso.it) # "eos" THEN make_error(next(cursor, 3, end))
        ELSE make_success(
                 push_back(push_back(push_back(
                     Node("type_definition_", begin, cso.it + 1),
                     Node("alnumus_", cursor, next(cursor, 1, end))),
                     Node("simple_assignment_", next(cursor, 1, end), next(cursor, 2, end))),
                     cso.node),
                 cso.it + 2)

ParseDirectiveType(tk, begin, end) ==
    LET cursor == next(begin, 1, end)
    IN  IF type_of(tk, begin) # "type_" THEN make_error(begin)
        ELSE IF TypeAt(tk, cursor, end) # "alnumus" THEN make_error(cursor)
        ELSE IF TypeAt(tk, next(cursor, 1, end), end) # "simple_assignment"
        THEN make_error(next(cursor, 1, end))
        ELSE IF TypeAt(tk, next(cursor, 2, end), end) = "alnumus"
        THEN type_definition_alnumus(tk, begin, end)
        ELSE type_definition_cso(tk, begin, end)

RECURSIVE ParseFunctionalBlock(_, _, _)

RECURSIVE ParsePragmaticBlock(_, _, _)

\* A method definition once its body is parsed: the node of the body is
\* added whether or not the body is valid; an exception of the body leaves
\* the routine.
method_with_body(node, body, it) ==
    IF body.thrown THEN body ELSE make_success(push_back(node, body.node), it)

\* ParseDirectiveFunc: func <alnumus> { <body> } ;
shorthand_void_method_definition(tk, begin, end) ==
    LET method_def_body_scope ==
            find_statement(tk, "open_list", "close_list", next(begin, 2, end), end)
    IN  IF type_of(tk, method_def_body_scope.scope_end) # "eos"
        THEN make_error(method_def_body_scope.scope_end)
        ELSE method_with_body(
                 push_back(Node("shorthand_void_method_definition_", begin,
                                method_def_body_scope.scope_end + 2),
                           Node("alnumus_", next(begin, 1, end), next(begin, 2, end))),
                 ParseFunctionalBlock(tk, contained_begin(method_def_body_scope),
                                      contained_end(method_def_body_scope)),
                 method_def_body_scope.scope_end + 1)

\* ParseDirectiveFunc: func <alnumus> ( <arguments> ) { <body> } ;
method_definition(tk, begin, end) ==
    LET method_arguments_scope == find_scope(tk, next(begin, 2, end), end)
        method_def_body_scope ==
            find_statement(tk, "open_list", "close_list", method_arguments_scope.scope_end, end)
    IN  IF type_of(tk, method_arguments_scope.scope_end) # "open_list"
        THEN make_error(method_arguments_scope.scope_end)
        ELSE IF type_of(tk, method_def_body_scope.scope_end) # "eos"
        THEN make_error(method_def_body_scope.scope_end)
        ELSE method_with_body(
                 push_back(push_back(
                     Node("method_definition_", begin, method_def_body_scope.scope_end + 2),
                     Node("alnumus_", next(begin, 1, end), next(begin, 2, end))),
                     Node("arguments_", contained_begin(method_arguments_scope),
                          contained_end(method_arguments_scope))),
                 ParseFunctionalBlock(tk, contained_begin(method_def_body_scope),
                                      contained_end(method_def_body_scope)),
                 method_def_body_scope.scope_end + 1)

\* ParseDirectiveFunc: func [ <constraints> ] <alnumus> { <body> } ; the
\* body is kept as an unparsed functional block.
shorthand_constrained_void_method_definition(tk, begin, end, frame_scope) ==
    LET method_def_body_scope ==
            find_statement(tk, "open_list", "close_list", frame_scope.scope_end + 1, end)
    IN  IF type_of(tk, method_def_body_scope.scope_end) # "eos"
        THEN make_error(method_def_body_scope.scope_end)
        ELSE make_success(
                 push_back(push_back(push_back(
                     Node("shorthand_constrained_void_method_definition_", begin,
                          method_def_body_scope.scope_end + 2),
                     Node("type_constraints_", contained_begin(frame_scope),
                          contained_end(frame_scope))),
                     Node("alnumus_", frame_scope.scope_end, frame_scope.scope_end + 1)),
                     Node("functional_block_", contained_begin(method_def_body_scope),
                          contained_end(method_def_body_scope))),
                 method_def_body_scope.scope_end + 1)

\* ParseDirectiveFunc: func [ <constraints> ] <alnumus> ( <arguments> ) { <body> } ;
constrained_method_definition(tk, begin, end, frame_scope) ==
    LET method_arguments_scope == find_scope(tk, frame_scope.scope_end + 1, end)
        method_def_body_scope ==
            find_statement(tk, "open_list", "close_list", method_arguments_scope.scope_end, end)
    IN  IF type_of(tk, method_arguments_scope.scope_end) # "open_list"
        THEN make_error(method_arguments_scope.scope_end)
        ELSE IF type_of(tk, method_def_body_scope.scope_end) # "eos"
        THEN make_error(method_def_body_scope.scope_end)
        ELSE make_success(
                 push_back(push_back(push_back(push_back(
                     Node("method_definition_", begin, method_def_body_scope.scope_end + 2),
                     Node("type_constraints_", contained_begin(frame_scope),
                          contained_end(frame_scope))),
                     Node("alnumus_", frame_scope.scope_end, frame_scope.scope_end + 1)),
                     Node("arguments_", contained_begin(method_arguments_scope),
                          contained_end(method_arguments_scope))),
                     Node("functional_block_", contained_begin(method_def_body_scope),
                          contained_end(method_def_body_scope))),
                 method_def_body_scope.scope_end + 1)

ParseDirectiveFunc(tk, begin, end) ==
    LET frame_scope == find_statement(tk, "open_frame", "close_frame", next(begin, 1, end), end)
    IN  IF find_forward(tk, begin, <<"func_", "alnumus", "open_list">>)
        THEN shorthand_void_method_definition(tk, begin, end)
        ELSE IF find_forward(tk, begin, <<"func_", "alnumus", "open_scope">>)
        THEN method_definition(tk, begin, end)
        ELSE IF find_forward(tk, begin, <<"func_", "open_frame">>)
        THEN IF find_forward(tk, frame_scope.scope_end, <<"alnumus", "open_list">>)
             THEN shorthand_constrained_void_method_definition(tk, begin, end, frame_scope)
             ELSE IF find_forward(tk, frame_scope.scope_end, <<"alnumus", "open_scope">>)
             THEN constrained_method_definition(tk, begin, end, frame_scope)
             ELSE make_error(frame_scope.scope_end)
        ELSE make_error(begin)

\* ParseDirectiveClass once the block between the braces is parsed.
class_with_definition(tk, begin, class_scope, class_definition) ==
    IF class_definition.thrown THEN class_definition
    ELSE IF ~class_definition.valid THEN make_error(class_definition.it)
    ELSE IF type_of(tk, class_scope.scope_end) # "eos" THEN make_error(class_definition.it)
    ELSE make_success(
             push_back(push_back(Node("class_definition_", begin, class_scope.scope_end),
                                 Node("alnumus_", begin + 1, begin + 2)),
                       class_definition.node),
             class_scope.scope_end + 1)

ParseDirectiveClass(tk, begin, end) ==
    LET it == begin + 1
        class_scope == find_list(tk, it + 1, end)
    IN  IF type_of(tk, begin) # "class_" THEN make_error(begin)
        ELSE IF type_of(tk, it) # "alnumus" THEN make_error(it)
        ELSE IF type_of(tk, it + 1) # "open_list" THEN make_error(it + 1)
        ELSE class_with_definition(tk, begin, class_scope,
                                   ParsePragmaticBlock(tk, contained_begin(class_scope),
                                                       contained_end(class_scope)))

(***************************************************************************)
(* Blocks.                                                                 *)
(***************************************************************************)
\* The statement parser a pragmatic block dispatches to on a leading kind.
pragmatic_dispatch(tk, kind, b, e) ==
    CASE kind = "alnumus" -> ParseIdentifierStatement(tk, b, e)
      [] kind = "type_" -> ParseDirectiveType(tk, b, e)
      [] kind = "var_" -> ParseDirectiveVar(tk, b, e)
      [] kind = "class_" -> ParseDirectiveClass(tk, b, e)
      [] kind = "func_" -> ParseDirectiveFunc(tk, b, e)

\* The statement parser a functional block dispatches to on a leading kind.
functional_dispatch(tk, kind, b, e) ==
    CASE kind = "alnumus" -> ParseIdentifierStatement(tk, b, e)
      [] kind = "return_" -> ParseDirectiveReturn(tk, b, e)
      [] kind = "var_" -> ParseDirectiveVar(tk, b, e)

RECURSIVE pragmatic_statements(_, _, _, _)
\* The end of the parse_statement lambda of ParsePragmaticBlock: an invalid
\* statement throws, a valid one is added to node and the loop goes on at its
\* cursor.
pragmatic_parsed(tk, end, node, parse_result) ==
    IF parse_result.thrown THEN parse_result
    ELSE IF ~parse_result.valid THEN Raise("ParsePragmaticBlock: Invalid statement.")
    ELSE pragmatic_statements(tk, parse_result.it, end, push_back(node, parse_result.node))

\* The loop of ParsePragmaticBlock from the statement at it on; node holds
\* the statements parsed so far.
pragmatic_statements(tk, it, end, node) ==
    LET kind == type_of(tk, it)
        statement_scope == IF kind = "alnumus"
                           THEN find_open_statement(tk, kind, "eos", it, end)
                           ELSE find_statement(tk, kind, "eos", it, end)
    IN  IF ~(it < end /\ kind # "eof") THEN make_success(node, it)
        ELSE IF kind \notin {"alnumus", "type_", "var_", "class_", "func_"}
        THEN make_error(it)
        ELSE IF ~statement_scope.valid
        THEN Raise("ParsePragmaticBlock: Invalid statement scope.")
        ELSE pragmatic_parsed(tk, end, node,
                              pragmatic_dispatch(tk, kind, statement_scope.scope_begin,
                                                 statement_scope.scope_end))

ParsePragmaticBlock(tk, begin, end) ==
    pragmatic_statements(tk, begin, end, Node("pragmatic_block_", begin, end))

RECURSIVE functional_statements(_, _, _, _)
\* The end of the parse_statement lambda of ParseFunctionalBlock.
functional_parsed(tk, end, node, parse_result) ==
    IF parse_result.thrown THEN parse_result
    ELSE IF ~parse_result.valid THEN Raise("ParsePragmaticBlock: Invalid statement.")
    ELSE functional_statements(tk, parse_result.it, end, push_back(node, parse_result.node))

\* The loop of ParseFunctionalBlock.
functional_statements(tk, it, end, node) ==
    LET kind == type_of(tk, it)
        statement_scope == IF kind = "alnumus"
                           THEN find_open_statement(tk, kind, "eos", it, end)
                           ELSE find_statement(tk, kind, "eos", it, end)
    IN  IF ~(it < end /\ kind # "eof") THEN make_success(node, it)
        ELSE IF kind \notin {"alnumus", "return_", "var_"}
        THEN make_error(it)
        ELSE IF ~statement_scope.valid
        THEN Raise("ParsePragmaticBlock: Invalid statement scope.")
        ELSE functional_parsed(tk, end, node,
                               functional_dispatch(tk, kind, statement_scope.scope_begin,
                                                   statement_scope.scope_end))

ParseFunctionalBlock(tk, begin, end) ==
    functional_statements(tk, begin, end, Node("functional_block_", begin, end))

(***************************************************************************)
(* Inputs.                                                                 *)
(***************************************************************************)
\* Every token sequence of n tokens.
FreeInputs(n) == [1..n -> TokenKinds]

\* Expressions of the parser's unit tests that are longer than MaxLen.
TestInputs ==
    { <<"open_scope", "number_literal", "addition", "number_literal", "close_scope",
        "multiplication", "number_literal">>,
      <<"alnumus", "period", "alnumus", "open_scope", "close_scope">>,
      <<"alnumus", "period", "alnumus", "open_scope", "close_scope", "period", "alnumus">>,
      <<"alnumus", "period", "alnumus", "open_scope", "close_scope", "addition",
        "number_literal", "multiplication", "number_literal">>,
      <<"number_literal", "addition", "alnumus", "open_scope", "close_scope">>,
      <<"alnumus", "open_scope", "close_scope", "addition", "number_literal">>,
      <<"alnumus", "open_scope", "number_literal", "close_scope", "addition", "number_literal">>,
      <<"alnumus", "subtraction", "alnumus", "multiplication", "alnumus", "subtraction",
        "alnumus">> }

\* A unary operator on a member access, followed by a weaker binary
\* operation.
UnaryMemberInputs ==
    {<<"negation", "alnumus", "period", "alnumus", op, x>> :
         op \in {"addition", "subtraction", "multiplication"},
         x \in {"number_literal", "alnumus"}}

\* Expressions in redundant parentheses, up to three pairs deep.
WrappedInputs ==
    { <<"open_scope", "open_scope", "alnumus", "addition", "number_literal",
        "close_scope", "close_scope">>,
      <<"open_scope", "open_scope", "open_scope", "alnumus", "close_scope",
        "close_scope", "close_scope">>,
      <<"open_scope", "open_scope", "open_scope", "alnumus", "multiplication", "alnumus",
        "close_scope", "close_scope", "close_scope">>,
      <<"open_scope", "open_scope", "alnumus", "close_scope", "addition",
        "open_scope", "alnumus", "close_scope", "close_scope">>,
      <<"open_scope", "alnumus", "addition", "alnumus", "multiplication", "alnumus",
        "close_scope">>,
      <<"open_scope", "negation", "alnumus", "addition", "alnumus", "close_scope">>,
      <<"open_scope", "alnumus", "open_scope", "close_scope", "close_scope", "close_scope">>,
      <<"open_scope", "alnumus", "close_scope", "addition", "open_scope", "alnumus",
        "close_scope">> }

\* A call as right operand of a binary operator: `a op f()`, `a op !f()`,
\* alone and followed by another operator.
CallOperandInputs ==
    {<<"alnumus", op>> \o u \o <<"alnumus", "open_scope", "close_scope">> \o rest :
         op \in {"simple_assignment", "addition", "multiplication"},
         u \in {<<>>, <<"negation">>},
         rest \in {<<>>, <<"simple_assignment", "alnumus">>, <<"addition", "alnumus">>,
                   <<"multiplication", "alnumus">>}}

\* A parenthesised expression as last operand: `a op (b + c)`, `a op (b)`.
ScopeOperandInputs ==
    {<<"alnumus", op, "open_scope">> \o e \o <<"close_scope">> :
         op \in {"simple_assignment", "addition", "multiplication"},
         e \in {<<"alnumus">>, <<"alnumus", "addition", "alnumus">>,
                <<"alnumus", "simple_assignment", "number_literal">>}}

\* The expressions that are longer than MaxLen.
LongInputs ==
    TestInputs
    \cup (UnaryMemberInputs
          \cup (WrappedInputs \cup (CallOperandInputs \cup ScopeOperandInputs)))

(***************************************************************************)
(* The state machine: a token vector is handed to build_statement.        *)
(***************************************************************************)
Init ==
    /\ \/ \E n \in 1..MaxLen : tokens \in FreeInputs(n)
       \/ tokens \in LongInputs
    /\ pc = "ready"
    /\ result = nullopt

\* build_statement(tokens.cbegin(), tokens.cend())
BuildStatement ==
    /\ pc = "ready"
    /\ result' = build_statement(tokens, 1, Len(tokens) + 1, nullopt)
    /\ pc' = "done"
    /\ UNCHANGED tokens

Next == BuildStatement

Spec == Init /\ [][Next]_vars

(***************************************************************************)
(* The statement parsers: a token vector that ends with eof is handed to   *)
(* one of the parsing processes.                                           *)
(***************************************************************************)
\* Every expression of at most n tokens.
ExpressionsUpTo(n) == UNION {[1..k -> TokenKinds] : k \in 1..n}

\* <expression> ;
ExpressionStatements == {e \o <<"eos">> : e \in ExpressionsUpTo(StmtLen)}

\* Contents of a type-constraint frame.
FrameSamples == {<<>>, <<"aint_">>, <<"aint_", "comma", "alnumus">>}

\* var followed by anything.
AnonVarStatements == {<<"var_">> \o e \o <<"eos">> : e \in ExpressionsUpTo(StmtLen)}

\* var [ <constraints> ] <alnumus> ;
ConstrainedDeclarations ==
    {<<"var_", "open_frame">> \o c \o <<"close_frame", "alnumus", "eos">> : c \in FrameSamples}

\* var [ <constraints> ] <alnumus> = followed by anything.
ConstrainedAssignments ==
    {<<"var_", "open_frame">> \o c[1] \o <<"close_frame", "alnumus", "simple_assignment">>
         \o c[2] \o <<"eos">> : c \in FrameSamples \X ExpressionsUpTo(StmtLen - 1)}

VarStatements == AnonVarStatements \cup (ConstrainedAssignments \cup ConstrainedDeclarations)

\* Type expressions, well formed and not.
TypeExpressions ==
    { <<"alnumus">>, <<"atype_">>, <<"aint_">>, <<"auint_">>, <<"areal_">>,
      <<"aint_", "open_frame", "number_literal", "ellipsis", "number_literal", "close_frame">>,
      <<"aint_", "open_frame", "subtraction", "number_literal", "ellipsis",
        "subtraction", "number_literal", "close_frame">>,
      <<"auint_", "open_frame", "number_literal", "ellipsis", "number_literal", "close_frame">>,
      <<"apointer_", "open_frame", "alnumus", "close_frame">>,
      <<"apointer_", "open_frame", "aint_", "close_frame">>,
      <<"apointer_", "open_frame", "number_literal", "close_frame">>,
      <<"apointer_">>, <<"aarray_">>, <<"number_literal">>, <<"alnumus", "alnumus">> }

TypeStatements ==
    {<<"type_", "alnumus", "simple_assignment">> \o t \o <<"eos">> : t \in TypeExpressions}
    \cup {<<"type_", "alnumus", "eos">>, <<"type_", "number_literal", "eos">>}

\* Statements of a functional block, accepted and not.
FunctionalStatements ==
    { <<"return_", "number_literal", "eos">>,
      <<"return_", "number_literal", "addition", "eos">>,
      <<"alnumus", "simple_assignment", "number_literal", "eos">>,
      <<"alnumus", "simple_assignment", "alnumus", "addition", "number_literal", "eos">>,
      <<"alnumus", "open_scope", "close_scope", "eos">>,
      <<"alnumus", "eos">>,
      <<"var_", "alnumus", "eos">>,
      <<"var_", "alnumus", "simple_assignment", "number_literal", "eos">>,
      <<"var_", "alnumus">>,
      <<"eos">>,
      <<"break_", "eos">>, <<"continue_", "eos">>, <<"print_", "alnumus", "eos">>,
      <<"if_", "open_scope", "alnumus", "close_scope", "open_list", "close_list", "eos">>,
      <<"elif_", "open_scope", "alnumus", "close_scope", "open_list", "close_list", "eos">>,
      <<"else_", "open_list", "close_list", "eos">>,
      <<"while_", "open_scope", "alnumus", "close_scope", "open_list", "close_list", "eos">>,
      <<"for_", "open_scope", "alnumus", "close_scope", "open_list", "close_list", "eos">>,
      <<"on_", "open_scope", "alnumus", "close_scope", "open_list", "close_list", "eos">> }

\* A function body between its braces.
Bodies ==
    { <<>>, <<"return_", "number_literal", "eos">>, <<"var_", "alnumus", "eos">>,
      <<"alnumus", "open_scope", "close_scope", "eos">>, <<"break_", "eos">> }

FuncStatements ==
    {<<"func_", "alnumus", "open_list">> \o b \o <<"close_list", "eos">> : b \in Bodies}
    \cup {<<"func_", "alnumus", "open_scope">> \o a \o <<"close_scope", "open_list">> \o b
              \o <<"close_list", "eos">> : a \in {<<>>, <<"alnumus">>}, b \in Bodies}
    \cup {<<"func_", "open_frame", "aint_", "close_frame", "alnumus", "open_list">> \o b
              \o <<"close_list", "eos">> : b \in Bodies}
    \cup {<<"func_", "open_frame", "aint_", "close_frame", "alnumus", "open_scope",
            "close_scope", "open_list">> \o b \o <<"close_list", "eos">> : b \in Bodies}
    \cup { <<"func_", "alnumus", "open_list", "close_list">>,
           <<"func_", "alnumus", "open_scope", "close_scope", "eos">>,
           <<"func_", "open_frame", "aint_", "close_frame", "alnumus", "eos">>,
           <<"func_", "number_literal", "eos">> }

\* Statements of a pragmatic block, accepted and not.
PragmaticStatements ==
    { <<"var_", "alnumus", "eos">>,
      <<"var_", "alnumus", "simple_assignment", "number_literal", "eos">>,
      <<"var_", "alnumus">>,
      <<"type_", "alnumus", "simple_assignment", "alnumus", "eos">>,
      <<"type_", "alnumus", "simple_assignment", "aint_", "eos">>,
      <<"alnumus", "simple_assignment", "number_literal", "eos">>,
      <<"alnumus", "eos">>,
      <<"eos">>,
      <<"number_literal", "eos">>,
      <<"func_", "alnumus", "open_list", "close_list", "eos">> }

ClassStatements ==
    {<<"class_", "alnumus", "open_list">> \o s[1] \o s[2] \o <<"close_list", "eos">> :
         s \in (PragmaticStatements \cup {<<>>}) \X (PragmaticStatements \cup {<<>>})}
    \cup { <<"class_", "alnumus", "open_list", "close_list">>,
           <<"class_", "alnumus", "eos">>,
           <<"class_", "number_literal", "eos">> }

\* One or two statements of a block.
BlockStatements == FunctionalStatements \cup PragmaticStatements

Blocks == {s[1] \o s[2] : s \in BlockStatements \X (BlockStatements \cup {<<>>})}

\* The element type and size of an array type: [ <type> , <number> ]
ArrayConstraints ==
    {<<"open_frame">> \o t \o <<"comma", "number_literal", "close_frame">> :
         t \in {<<"alnumus">>, <<"aint_">>, <<"areal_">>,
                <<"apointer_", "open_frame", "alnumus", "close_frame">>}}

\* Array types, alone and nested in a pointer or array type, with and
\* without the size.
ArrayTypeExpressions ==
    {<<"aarray_">> \o c : c \in ArrayConstraints}
    \cup {<<"apointer_", "open_frame", "aarray_">> \o c \o <<"close_frame">> :
              c \in ArrayConstraints}
    \cup {<<"aarray_", "open_frame", "aarray_">> \o c
              \o <<"comma", "number_literal", "close_frame">> : c \in ArrayConstraints}
    \cup {<<"aarray_", "open_frame", "alnumus", "close_frame">>,
           <<"aarray_", "open_frame", "aint_", "close_frame">>,
           <<"aarray_", "open_frame", "number_literal", "comma", "number_literal",
             "close_frame">>,
           <<"aarray_", "open_frame", "alnumus", "comma", "alnumus", "close_frame">>}

\* Pointer and array types whose constraint is followed by a token other
\* than the close frame, or by nothing.
UnclosedTypeExpressions ==
    {<<s, "open_frame">> \o c \o last :
         s \in {"apointer_", "aarray_"},
         c \in {<<"alnumus">>, <<"aint_">>, <<"alnumus", "comma", "number_literal">>,
                <<"aint_", "comma", "number_literal">>},
         last \in {<<>>, <<"eos">>, <<"close_scope">>, <<"alnumus">>}}

\* Token vectors a type sigil parser is performed on, and type statements
\* with the array and unclosed types.
CsoInputs ==
    {t \in TypeExpressions : t[1] \in Sigils}
    \cup (ArrayTypeExpressions
          \cup (UnclosedTypeExpressions
                \cup {<<"type_", "alnumus", "simple_assignment">> \o t \o <<"eos">> :
                          t \in ArrayTypeExpressions \cup UnclosedTypeExpressions}))

ParserInputs ==
    {s \o <<"eof">> :
         s \in ExpressionStatements
                \cup (VarStatements
                      \cup (Blocks
                            \cup (ClassStatements
                                  \cup (FuncStatements \cup (TypeStatements \cup CsoInputs)))))}

ParserInit ==
    /\ tokens \in ParserInputs
    /\ pc = "ready"
    /\ result = ParsingResult(nullopt, 0, FALSE)

\* A parsing process is performed on the whole token vector.
Perform(process, parsing_result) ==
    /\ pc = "ready"
    /\ pc' = process
    /\ result' = parsing_result
    /\ UNCHANGED tokens

PerformValueExpression ==
    /\ tokens[1] \notin Keywords
    /\ Perform("ParseValueExpression", ParseValueExpression(tokens, 1, Len(tokens) + 1))

PerformDirectiveVar ==
    /\ tokens[1] = "var_"
    /\ Perform("ParseDirectiveVar", ParseDirectiveVar(tokens, 1, Len(tokens) + 1))

PerformDirectiveType ==
    /\ tokens[1] = "type_"
    /\ Perform("ParseDirectiveType", ParseDirectiveType(tokens, 1, Len(tokens) + 1))

PerformCandiSpecialObject ==
    /\ tokens[1] \in Sigils
    /\ Perform("ParseCandiSpecialObject", ParseCandiSpecialObject(tokens, 1, Len(tokens) + 1))

PerformCsoPointer ==
    /\ tokens[1] = "apointer_"
    /\ Perform("ParseCsoPointer", ParseCsoPointer(tokens, 1, Len(tokens) + 1))

PerformCsoArray ==
    /\ tokens[1] = "aarray_"
    /\ Perform("ParseCsoArray", ParseCsoArray(tokens, 1, Len(tokens) + 1))

PerformDirectiveFunc ==
    /\ tokens[1] = "func_"
    /\ Perform("ParseDirectiveFunc", ParseDirectiveFunc(tokens, 1, Len(tokens) + 1))

PerformDirectiveClass ==
    /\ tokens[1] = "class_"
    /\ Perform("ParseDirectiveClass", ParseDirectiveClass(tokens, 1, Len(tokens) + 1))

\* The blocks are handed any token vector; it ends with eof and is not empty.
PerformPragmaticBlock ==
    /\ Len(tokens) >= 1
    /\ Perform("ParsePragmaticBlock", ParsePragmaticBlock(tokens, 1, Len(tokens) + 1))

PerformFunctionalBlock ==
    /\ Len(tokens) >= 1
    /\ Perform("ParseFunctionalBlock", ParseFunctionalBlock(tokens, 1, Len(tokens) + 1))

ParserNext ==
    \/ PerformValueExpression
    \/ PerformDirectiveVar
    \/ PerformDirectiveType
    \/ PerformCandiSpecialObject
    \/ PerformCsoPointer
    \/ PerformCsoArray
    \/ PerformDirectiveFunc
    \/ PerformDirectiveClass
    \/ PerformPragmaticBlock
    \/ PerformFunctionalBlock

ParserSpec == ParserInit /\ [][ParserNext]_vars

(***************************************************************************)
(* The recursion of build_statement and the statement loops of the blocks, *)
(* one call and one iteration at a time.                                   *)
(***************************************************************************)
StepLen == 4

\* A call of build_statement: its range and whether last_pass has a value.
Call(b, e, has_value) == [begin |-> b, end |-> e, last_pass |-> has_value]

\* The calls of build_statement that a fresh start on a unary operator makes.
fresh_unary_calls(tk, it, end) ==
    IF next(it, 2, end) = end THEN {}
    ELSE {Call(next(it, 2, end), end, TRUE)}

\* The calls that a fresh start on an open parenthesis makes.
fresh_scope_calls(tk, it, end) ==
    LET scope == find_scope(tk, it, end)
    IN  IF ~scope.valid \/ is_empty(scope) THEN {}
        ELSE IF scope.scope_end = end
        THEN {Call(contained_begin(scope), contained_end(scope), FALSE)}
        ELSE {Call(contained_begin(scope), contained_end(scope), FALSE),
              Call(scope.scope_end, end, TRUE)}

\* The calls that a fresh start on an operand makes.
fresh_operand_calls(tk, it, end) ==
    LET following == next(it, 1, end)
        arg_scope == find_scope(tk, following, end)
    IN  IF following = end THEN {}
        ELSE IF TypeAt(tk, following, end) = "open_scope"
        THEN IF ~arg_scope.valid \/ arg_scope.scope_end = end THEN {}
             ELSE {Call(arg_scope.scope_end, end, TRUE)}
        ELSE {Call(following, end, TRUE)}

\* The call for a parenthesised operand whose scope is searched from
\* scope_from; none for any other operand.
scope_operand_calls(tk, it, end, scope_from) ==
    LET scope == find_scope(tk, scope_from, end)
    IN  IF TypeAt(tk, next(it, 1, end), end) = "open_scope"
        THEN {Call(contained_begin(scope), contained_end(scope), FALSE)}
        ELSE {}

\* The calls that a following pass makes.
following_pass_calls(tk, it, end) ==
    LET operand == next(it, 1, end)
        after_operand == following_operator(tk, it, end)
        is_call == TypeAt(tk, after_operand, end) = "open_scope"
        arg_scope == find_scope(tk, after_operand, end)
        next_operator_it == IF is_call THEN arg_scope.scope_end ELSE after_operand
        right == associativity(TypeAt(tk, it, end)) = "right_"
    IN  IF operand_error(tk, it, end) # "" \/ (is_call /\ ~arg_scope.valid) THEN {}
        ELSE IF next_operator_it = end
        THEN scope_operand_calls(tk, it, end, IF right THEN it ELSE operand)
        ELSE IF importance(TypeAt(tk, it, end)) < importance(TypeAt(tk, next_operator_it, end))
        THEN {Call(operand, end, FALSE)}
        ELSE scope_operand_calls(tk, it, end, operand) \cup {Call(next_operator_it, end, TRUE)}

\* The calls of build_statement that the call on (begin, end) makes itself.
recursive_calls(tk, begin, end, has_value) ==
    IF has_value THEN following_pass_calls(tk, begin, end)
    ELSE IF operation(TypeAt(tk, begin, end)) = "unary_" THEN fresh_unary_calls(tk, begin, end)
    ELSE IF TypeAt(tk, begin, end) = "open_scope" THEN fresh_scope_calls(tk, begin, end)
    ELSE fresh_operand_calls(tk, begin, end)

\* A statement loop whose cursor does not leave the statement it parsed.
stay_put(it, parse_result) == it

\* it = parse_result.it(): the loop goes on at the cursor of the statement.
advance(it, parse_result) == parse_result.it

\* The state of a statement loop: the block node and the cursor.
Loop(node, it) == [node |-> node, it |-> it]

\* The end of the parse_statement lambda: an exception or an invalid
\* statement ends the routine, a valid statement lets the loop go on.
statement_parsed(parse_result) ==
    IF parse_result.thrown THEN [goes_on |-> FALSE, value |-> parse_result]
    ELSE IF ~parse_result.valid
    THEN [goes_on |-> FALSE, value |-> Raise("ParsePragmaticBlock: Invalid statement.")]
    ELSE [goes_on |-> TRUE, value |-> parse_result]

\* The statement scope an iteration searches from the cursor.
iteration_scope(tk, it, end) ==
    IF type_of(tk, it) = "alnumus"
    THEN find_open_statement(tk, type_of(tk, it), "eos", it, end)
    ELSE find_statement(tk, type_of(tk, it), "eos", it, end)

\* The statement that the loop of ParsePragmaticBlock parses at it.
pragmatic_statement(tk, it, end) ==
    IF type_of(tk, it) \notin {"alnumus", "type_", "var_", "class_", "func_"}
    THEN [goes_on |-> FALSE, value |-> make_error(it)]
    ELSE IF ~iteration_scope(tk, it, end).valid
    THEN [goes_on |-> FALSE, value |-> Raise("ParsePragmaticBlock: Invalid statement scope.")]
    ELSE statement_parsed(pragmatic_dispatch(tk, type_of(tk, it), it,
                                             iteration_scope(tk, it, end).scope_end))

\* The statement that the loop of ParseFunctionalBlock parses at it.
functional_statement(tk, it, end) ==
    IF type_of(tk, it) \notin {"alnumus", "return_", "var_"}
    THEN [goes_on |-> FALSE, value |-> make_error(it)]
    ELSE IF ~iteration_scope(tk, it, end).valid
    THEN [goes_on |-> FALSE, value |-> Raise("ParsePragmaticBlock: Invalid statement scope.")]
    ELSE statement_parsed(functional_dispatch(tk, type_of(tk, it), it,
                                              iteration_scope(tk, it, end).scope_end))

\* One iteration of a statement loop: the test of the loop, and the node
\* and the cursor after the statement parsed at it.
loop_iteration(tk, it, end, node, statement) ==
    IF ~(it < end /\ type_of(tk, it) # "eof")
    THEN [goes_on |-> FALSE, value |-> make_success(node, it)]
    ELSE IF statement.goes_on
    THEN [goes_on |-> TRUE,
          value |-> Loop(push_back(node, statement.value.node), advance(it, statement.value))]
    ELSE statement

\* Expressions for build_statement, and blocks, which end with eof.
StepExpressions ==
    ExpressionsUpTo(StepLen)
    \cup (TestInputs
          \cup (UnaryMemberInputs
                \cup (WrappedInputs \cup (CallOperandInputs \cup ScopeOperandInputs))))

StepBlocks == {s \o <<"eof">> : s \in Blocks}

StepInputs == StepExpressions \cup StepBlocks

\* The statement each block parses at each of its tokens.
pragmatic_statement_at ==
    [tk \in StepBlocks |->
        [it \in 1..Len(tk) |-> pragmatic_statement(tk, it, Len(tk) + 1)]]

functional_statement_at ==
    [tk \in StepBlocks |->
        [it \in 1..Len(tk) |-> functional_statement(tk, it, Len(tk) + 1)]]

StepInit ==
    /\ tokens \in StepInputs
    /\ pc = "ready"
    /\ result = ParsingResult(nullopt, 0, FALSE)

\* build_statement is called on a whole expression.
CallBuildStatement ==
    /\ pc = "ready"
    /\ tokens[Len(tokens)] # "eof"
    /\ pc' = "build_statement"
    /\ result' = Call(1, Len(tokens) + 1, FALSE)
    /\ UNCHANGED tokens

\* The call in result makes one of its recursive calls.
Recurse ==
    /\ pc = "build_statement"
    /\ \E call \in recursive_calls(tokens, result.begin, result.end, result.last_pass) :
           result' = call
    /\ UNCHANGED <<tokens, pc>>

\* The call in result makes no recursive call: it returns or throws.
ReturnFromBuildStatement ==
    /\ pc = "build_statement"
    /\ recursive_calls(tokens, result.begin, result.end, result.last_pass) = {}
    /\ pc' = "returned"
    /\ UNCHANGED <<tokens, result>>

\* ParsePragmaticBlock is performed and reaches its loop.
EnterPragmaticBlock ==
    /\ pc = "ready"
    /\ tokens[Len(tokens)] = "eof"
    /\ pc' = "ParsePragmaticBlock"
    /\ result' = Loop(Node("pragmatic_block_", 1, Len(tokens) + 1), 1)
    /\ UNCHANGED tokens

\* ParseFunctionalBlock is performed and reaches its loop.
EnterFunctionalBlock ==
    /\ pc = "ready"
    /\ tokens[Len(tokens)] = "eof"
    /\ pc' = "ParseFunctionalBlock"
    /\ result' = Loop(Node("functional_block_", 1, Len(tokens) + 1), 1)
    /\ UNCHANGED tokens

\* The test and the body of one iteration of a statement loop.
Iterate(routine, iteration) ==
    /\ pc = routine
    /\ pc' = IF iteration.goes_on THEN routine ELSE "returned"
    /\ result' = iteration.value
    /\ UNCHANGED tokens

IteratePragmaticBlock ==
    /\ pc = "ParsePragmaticBlock"
    /\ Iterate("ParsePragmaticBlock",
               loop_iteration(tokens, result.it, Len(tokens) + 1, result.node,
                              pragmatic_statement_at[tokens][result.it]))

IterateFunctionalBlock ==
    /\ pc = "ParseFunctionalBlock"
    /\ Iterate("ParseFunctionalBlock",
               loop_iteration(tokens, result.it, Len(tokens) + 1, result.node,
                              functional_statement_at[tokens][result.it]))

StepNext ==
    \/ CallBuildStatement
    \/ Recurse
    \/ ReturnFromBuildStatement
    \/ EnterPragmaticBlock
    \/ EnterFunctionalBlock
    \/ IteratePragmaticBlock
    \/ IterateFunctionalBlock

\* A routine that can take a step takes it: the program runs on one thread
\* and nothing else is scheduled.
StepSpec == StepInit /\ [][StepNext]_vars /\ WF_vars(StepNext)

(***************************************************************************)
(* Vocabulary of the properties.                                           *)
(***************************************************************************)
Returned == pc = "done" /\ ~IsThrow(result)

BinaryNodeTypes == {NodeTypeOf(k) : k \in BinaryOps}

UnaryNodeTypes == {NodeTypeOf(k) : k \in UnaryOps}

RECURSIVE Nodes(_)
\* Every node of a tree.
Nodes(n) == {n} \cup UNION {Nodes(n.ch[i]) : i \in 1..Len(n.ch)}

\* Positions of the tokens that are leaves of a tree.
LeafPositions(n) == {m.tb : m \in {l \in Nodes(n) : l.ch = <<>> /\ l.te > l.tb}}

RECURSIVE Shape(_)
\* The shape of a tree: the kind of every node, and for a leaf the position
\* of its token; the spans of inner nodes are left out.
Shape(n) ==
    [type |-> n.type,
     at |-> IF n.ch = <<>> THEN n.tb ELSE 0,
     ch |-> [i \in 1..Len(n.ch) |-> Shape(n.ch[i])]]

\* Expected shapes: the leaf of the token at position p, an inner node, and
\* the childless arguments node of a call whose parenthesis opens at p.
Leaf(p) == [type |-> NodeTypeOf(tokens[p]), at |-> p, ch |-> <<>>]

Inner(t, kids) == [type |-> t, at |-> 0, ch |-> kids]

OpAt(p, kids) == Inner(NodeTypeOf(tokens[p]), kids)

NoArguments(p) == [type |-> "arguments_", at |-> p + 1, ch |-> <<>>]

\* tokens is operand operator operand operator operand
IsChain ==
    /\ Len(tokens) = 5
    /\ {tokens[1], tokens[3], tokens[5]} \subseteq Atoms
    /\ {tokens[2], tokens[4]} \subseteq BinaryOps

(***************************************************************************)
(* Properties of build_statement.                                          *)
(***************************************************************************)
\* C1: for atoms a, b, c and binary operators op1, op2 with op2 of strictly
\* higher precedence than op1, `a op1 b op2 c` yields the tree rooted at op1
\* with children [a, (op2 b c)].
C1_HigherPrecedenceBindsTighter ==
    (pc = "done" /\ IsChain /\ importance(tokens[2]) < importance(tokens[4]))
        => Shape(result) = OpAt(2, <<Leaf(1), OpAt(4, <<Leaf(3), Leaf(5)>>)>>)

\* C2: for atoms a, b, c and left-associative binary operators op1, op2 of
\* equal precedence, `a op1 b op2 c` yields the tree rooted at op2 with
\* children [(op1 a b), c].
C2_LeftAssociativeBindsLeft ==
    (/\ pc = "done" /\ IsChain
     /\ associativity(tokens[2]) = "left_" /\ associativity(tokens[4]) = "left_"
     /\ importance(tokens[2]) = importance(tokens[4]))
        => Shape(result) = OpAt(4, <<OpAt(2, <<Leaf(1), Leaf(3)>>), Leaf(5)>>)

\* C3: `a = b = c` yields (= a (= b c)): the root is an assignment whose
\* child 0 is the leaf a and whose child 1 is the assignment of c to b.
C3_AssignmentChainsRight ==
    (pc = "done" /\ tokens = <<"alnumus", "simple_assignment", "alnumus",
                               "simple_assignment", "alnumus">>)
        => Shape(result) = OpAt(2, <<Leaf(1), OpAt(4, <<Leaf(3), Leaf(5)>>)>>)

\* C4: every binary-operator node of a returned tree has its children in
\* the order [lhs, rhs]: the tokens of child 0 are left of the tokens of
\* child 1; in particular `foo = 1 + 2` yields (= foo (+ 1 2)).
C4_ChildrenAreLhsThenRhs ==
    /\ Returned =>
          \A n \in Nodes(result) :
              (n.type \in BinaryNodeTypes /\ Len(n.ch) = 2) =>
                  \A l \in LeafPositions(n.ch[1]) : \A r \in LeafPositions(n.ch[2]) : l < r
    /\ (pc = "done" /\ tokens = <<"alnumus", "simple_assignment", "number_literal",
                                  "addition", "number_literal">>)
          => Shape(result) = OpAt(2, <<Leaf(1), OpAt(4, <<Leaf(3), Leaf(5)>>)>>)

\* tokens starts with a non-empty parenthesised expression that is followed
\* by a binary operator.
StartsWithScopeThenOperator ==
    /\ tokens[1] = "open_scope"
    /\ find_scope(tokens, 1, Len(tokens) + 1).valid
    /\ ~is_empty(find_scope(tokens, 1, Len(tokens) + 1))
    /\ TypeAt(tokens, find_scope(tokens, 1, Len(tokens) + 1).scope_end, Len(tokens) + 1)
           \in BinaryOps

\* C5: a parenthesised subexpression at the start of an expression that is
\* followed by a binary operator becomes the left child of that operator,
\* and the parentheses produce no node; `(1 + 1) * 1` yields (* (+ 1 1) 1).
C5_LeadingScopeIsLeftChild ==
    /\ (Returned /\ StartsWithScopeThenOperator) =>
          LET scope == find_scope(tokens, 1, Len(tokens) + 1)
              inner == build_statement(tokens, contained_begin(scope), contained_end(scope), nullopt)
          IN  \E n \in Nodes(result) :
                  /\ n.type = NodeTypeOf(tokens[scope.scope_end])
                  /\ Len(n.ch) = 2
                  /\ n.ch[1] = inner
    /\ (pc = "done" /\ tokens = <<"open_scope", "number_literal", "addition", "number_literal",
                                  "close_scope", "multiplication", "number_literal">>)
          => Shape(result) = OpAt(6, <<OpAt(3, <<Leaf(2), Leaf(4)>>), Leaf(7)>>)

\* C6: a call postfix applies to the whole member access before it:
\* `foo.bar()` yields (call (. foo bar) args()) and `a.b().c` yields
\* (. (call (. a b) args()) c).
C6_CallAppliesToMemberAccess ==
    /\ (pc = "done" /\ tokens = <<"alnumus", "period", "alnumus", "open_scope", "close_scope">>)
          => Shape(result)
               = Inner("function_call_", <<OpAt(2, <<Leaf(1), Leaf(3)>>), NoArguments(4)>>)
    /\ (pc = "done" /\ tokens = <<"alnumus", "period", "alnumus", "open_scope", "close_scope",
                                  "period", "alnumus">>)
          => Shape(result)
               = OpAt(6, <<Inner("function_call_",
                               <<OpAt(2, <<Leaf(1), Leaf(3)>>), NoArguments(4)>>),
                           Leaf(7)>>)

\* C7: a prefix unary operator followed by its operand and a binary
\* operator of lower or equal precedence becomes the left child of that
\* operator: `u x op y` yields (op (u x) y).
C7_UnaryIsLeftChildOfWeakerOperator ==
    (/\ pc = "done" /\ Len(tokens) = 4
     /\ tokens[1] \in UnaryOps /\ tokens[2] \in Atoms
     /\ tokens[3] \in BinaryOps /\ tokens[4] \in Atoms
     /\ importance(tokens[3]) <= importance(tokens[1]))
        => Shape(result) = OpAt(3, <<OpAt(1, <<Leaf(2)>>), Leaf(4)>>)

\* C8: in every returned tree a binary-operator node has exactly two
\* children and a unary-operator node exactly one.
C8_OperatorArity ==
    Returned =>
        \A n \in Nodes(result) :
            /\ n.type \in BinaryNodeTypes => Len(n.ch) = 2
            /\ n.type \in UnaryNodeTypes => Len(n.ch) = 1

\* C9: every function_call node of a returned tree has two children, a
\* callee and an arguments node, and the arguments node has one child per
\* argument written between the parentheses (none for `()`), the parsed
\* tree of that argument.
C9_CallHasCalleeAndParsedArguments ==
    Returned =>
        \A n \in Nodes(result) :
            n.type = "function_call_" =>
                /\ Len(n.ch) = 2
                /\ n.ch[2].type = "arguments_"
                /\ n.ch[2].tb = n.ch[2].te => n.ch[2].ch = <<>>
                /\ n.ch[2].tb < n.ch[2].te =>
                      n.ch[2].ch = <<build_statement(tokens, n.ch[2].tb, n.ch[2].te, nullopt)>>

\* C10: every node of a returned tree carries a source span that covers at
\* least one token of the input.
C10_SpanCoversAToken ==
    Returned =>
        \A n \in Nodes(result) : 1 <= n.tb /\ n.tb < n.te /\ n.te <= Len(tokens) + 1

(***************************************************************************)
(* Properties of the expression builder, continued.                        *)
(***************************************************************************)
\* tokens is `( ) ;` or `a op ( ) ;` for an atom a and a binary operator op.
IsEmptyParenthesisOperand ==
    \/ tokens = <<"open_scope", "close_scope", "eos", "eof">>
    \/ /\ Len(tokens) = 6
       /\ tokens[1] \in Atoms /\ tokens[2] \in BinaryOps
       /\ tokens[3] = "open_scope" /\ tokens[4] = "close_scope" /\ tokens[5] = "eos"

\* C11: an empty parenthesis pair used as an operand, as the whole
\* expression or as the right operand of a binary operator, makes
\* build_statement fail with 'Empty parenthesis.', and ParseValueExpression
\* returns a result that is not valid.
C11_EmptyParenthesisRejected ==
    IsEmptyParenthesisOperand =>
        /\ build_statement(tokens, 1, Len(tokens) - 1, nullopt) = Throw("Empty parenthesis.")
        /\ pc = "ParseValueExpression" => (~result.valid /\ ~result.thrown)

C11_Witness ==
    /\ pc = "ParseValueExpression" /\ IsEmptyParenthesisOperand
    /\ tokens[2] = "simple_assignment" /\ ~result.valid

\* tokens is `u op x ;` for a unary operator u, a binary operator op and an
\* atom x.
IsBinaryAfterUnary ==
    /\ Len(tokens) = 5
    /\ tokens[1] \in UnaryOps /\ tokens[2] \in BinaryOps /\ tokens[3] \in Atoms
    /\ tokens[4] = "eos"

\* C12: a prefix unary operator immediately followed by a binary operator is
\* rejected: build_statement returns no tree for `u op x` and
\* ParseValueExpression returns a result that is not valid.
C12_BinaryAfterUnaryRejected ==
    IsBinaryAfterUnary =>
        /\ IsThrow(build_statement(tokens, 1, 4, nullopt))
        /\ pc = "ParseValueExpression" => (~result.valid /\ ~result.thrown)

C12_Witness ==
    /\ pc = "ParseValueExpression" /\ IsBinaryAfterUnary
    /\ tokens[2] = "addition" /\ tokens[3] = "number_literal" /\ ~result.valid

\* C13: prefix unary operators nest right to left and take a call as
\* operand: `!!1` yields (! (! 1)) and `!foo()` yields (! (call foo args())).
C13_UnaryNestsAndTakesCall ==
    /\ (pc = "done" /\ tokens = <<"negation", "negation", "number_literal">>)
          => Shape(result) = OpAt(1, <<OpAt(2, <<Leaf(3)>>)>>)
    /\ (pc = "done" /\ tokens = <<"negation", "alnumus", "open_scope", "close_scope">>)
          => Shape(result)
               = OpAt(1, <<Inner("function_call_", <<Leaf(2), NoArguments(3)>>)>>)

(***************************************************************************)
(* Properties of the statement parsers.                                    *)
(***************************************************************************)
\* C16: ParseValueExpression on `<atom> ;` succeeds, its node is the single
\* leaf of the atom and its cursor is one past the `;`.
C16_AtomStatementIsLeaf ==
    (pc = "ParseValueExpression" /\ tokens[1] \in Atoms /\ tokens[2] = "eos") =>
        /\ result.valid /\ ~result.thrown
        /\ result.node = Node(NodeTypeOf(tokens[1]), 1, 2)
        /\ result.it = 3

C16_Witness ==
    /\ pc = "ParseValueExpression" /\ result.valid
    /\ tokens = <<"alnumus", "eos", "eof">>

\* C14: for `var <name> = <expr> ;` ParseDirectiveVar returns an
\* anon_variable_definition_assingment node with exactly two children: the
\* alnumus of the name, then the expression tree of the tokens to the right
\* of `=`.
C14_AnonAssignmentHoldsExpression ==
    (/\ pc = "ParseDirectiveVar"
     /\ find_forward(tokens, 1, <<"var_", "alnumus", "simple_assignment">>)
     /\ result.valid) =>
        /\ result.node.type = "anon_variable_definition_assingment_"
        /\ Len(result.node.ch) = 2
        /\ result.node.ch[1] = Node("alnumus_", 2, 3)
        /\ result.node.ch[2] = build_statement(tokens, 4, result.it - 1, nullopt)

\* Position of the `;` that closes the expression that starts at p, or 0 when
\* a bracket of the expression has no partner.
ExpressionEos(p) == FindTerminator(tokens, p, Len(tokens) + 1, "eos", 0)

\* tokens starts with var [
IsConstrainedVar == find_forward(tokens, 1, <<"var_", "open_frame">>)

\* Position of the bracket that closes the constraints of a constrained var.
CloseFrame ==
    CHOOSE i \in 3..Len(tokens) :
        tokens[i] = "close_frame" /\ \A j \in 3..(i - 1) : tokens[j] # "close_frame"

\* C15: for `var [<constraints>] <name> = <expr> ;` ParseDirectiveVar returns
\* a constrained_variable_definition node with four children in this order:
\* type_constraints spanning the tokens inside the brackets, the alnumus of
\* the name, the simple_assignment token and the expression tree of <expr>;
\* for `var [<constraints>] <name> ;` it returns the same kind with the two
\* children type_constraints, alnumus.
C15_ConstrainedVarChildren ==
    (pc = "ParseDirectiveVar" /\ IsConstrainedVar) =>
        LET c == CloseFrame
            ch == result.node.ch
        IN  /\ tokens[c + 2] = "eos" => result.valid /\ Len(ch) = 2
            /\ (tokens[c + 2] = "simple_assignment" /\ tokens[c + 3] \in Atoms
                    /\ tokens[c + 4] = "eos")
                  => /\ result.valid
                     /\ Len(ch) = 4
                     /\ ch[4] = Node(NodeTypeOf(tokens[c + 3]), c + 3, c + 4)
            /\ (tokens[c + 2] = "simple_assignment" /\ ExpressionEos(c + 3) # 0)
                  => (result.valid
                        <=> ~IsThrow(build_statement(tokens, c + 3, ExpressionEos(c + 3),
                                                     nullopt)))
            /\ result.valid =>
                  /\ result.node.type = "constrained_variable_definition_"
                  /\ ch[1] = Node("type_constraints_", 3, c)
                  /\ ch[2] = Node("alnumus_", c + 1, c + 2)
                  /\ tokens[c + 2] = "simple_assignment" =>
                        /\ Len(ch) = 4
                        /\ ch[3] = Node("simple_assignment_", c + 2, c + 3)
                        /\ ch[4] = build_statement(tokens, c + 3, result.it - 1, nullopt)
                        /\ ExpressionEos(c + 3) # 0 => result.it = ExpressionEos(c + 3) + 1

C15_Witness ==
    /\ pc = "ParseDirectiveVar" /\ result.valid
    /\ tokens = <<"var_", "open_frame", "aint_", "comma", "alnumus", "close_frame",
                  "alnumus", "simple_assignment", "number_literal", "eos", "eof">>
    /\ Len(result.node.ch) = 4

\* Position of the `;` that terminates the statement the tokens start with,
\* or 0 when a bracket of the statement has no partner.
StatementEos == ExpressionEos(1)

\* C17: on success each of ParseDirectiveType, ParseDirectiveVar,
\* ParseDirectiveFunc and ParseDirectiveClass returns a cursor that is one
\* token past the `;` that terminates the statement.
C17_CursorOnePastTerminator ==
    (/\ pc \in {"ParseDirectiveType", "ParseDirectiveVar", "ParseDirectiveFunc",
                 "ParseDirectiveClass"}
     /\ StatementEos # 0
     /\ result.valid) => result.it = StatementEos + 1

\* C18: when a statement inside a block is invalid, ParsePragmaticBlock and
\* ParseFunctionalBlock return a result that is not valid and whose node is
\* of kind invalid_; the failure is that result value in every case.
C18_BlockFailureIsAResult ==
    pc \in {"ParsePragmaticBlock", "ParseFunctionalBlock"} =>
        /\ ~result.thrown
        /\ ~result.valid => result.node.type = "invalid_"

\* The statements of a functional block: one of each leading keyword, and the
\* identifier-led assignment, expression statement and call.
FunctionalForms ==
    { <<"return_", "number_literal", "eos">>,
      <<"if_", "open_scope", "alnumus", "close_scope", "open_list", "close_list", "eos">>,
      <<"elif_", "open_scope", "alnumus", "close_scope", "open_list", "close_list", "eos">>,
      <<"else_", "open_list", "close_list", "eos">>,
      <<"while_", "open_scope", "alnumus", "close_scope", "open_list", "close_list", "eos">>,
      <<"for_", "open_scope", "alnumus", "close_scope", "open_list", "close_list", "eos">>,
      <<"on_", "open_scope", "alnumus", "close_scope", "open_list", "close_list", "eos">>,
      <<"break_", "eos">>, <<"continue_", "eos">>, <<"print_", "alnumus", "eos">>,
      <<"alnumus", "simple_assignment", "number_literal", "eos">>,
      <<"alnumus", "simple_assignment", "alnumus", "addition", "number_literal", "eos">>,
      <<"alnumus", "eos">>,
      <<"alnumus", "open_scope", "close_scope", "eos">> }

\* C19: in a functional block a statement led by return, if, elif, else,
\* while, for, on, break, continue or print, and an identifier-led
\* assignment, expression statement or call, is accepted by
\* ParseFunctionalBlock and contributes one child to the functional_block
\* node.
C19_FunctionalFormsAccepted ==
    (pc = "ParseFunctionalBlock" /\ tokens \in {s \o <<"eof">> : s \in FunctionalForms}) =>
        /\ result.valid /\ ~result.thrown
        /\ result.node.type = "functional_block_"
        /\ Len(result.node.ch) = 1

\* tokens is a parenthesis-free chain of atoms and left-associative binary
\* operators.
IsLeftChain ==
    /\ Len(tokens) % 2 = 1
    /\ \A i \in 1..Len(tokens) :
          IF i % 2 = 1 THEN tokens[i] \in Atoms
          ELSE tokens[i] \in BinaryOps /\ associativity(tokens[i]) = "left_"

\* The operator at which a left-associative chain b..e splits: the last of
\* the operators of lowest precedence.
SplitAt(b, e) ==
    CHOOSE p \in {q \in b..e : q % 2 = 0} :
        \A q \in {r \in b..e : r % 2 = 0} :
            \/ importance(tokens[p]) < importance(tokens[q])
            \/ importance(tokens[p]) = importance(tokens[q]) /\ q <= p

RECURSIVE ReferenceTree(_, _)
\* The shape a reference operator-precedence parser gives the chain b..e.
ReferenceTree(b, e) ==
    IF b = e THEN Leaf(b)
    ELSE LET p == SplitAt(b, e)
         IN  OpAt(p, <<ReferenceTree(b, p - 1), ReferenceTree(p + 1, e)>>)

\* C20: for every parenthesis-free sequence of atoms and left-associative
\* binary operators build_statement returns the tree of a reference
\* operator-precedence parser; `a - b * c - d` yields (- (- a (* b c)) d).
C20_MatchesReferenceParser ==
    (pc = "done" /\ IsLeftChain) =>
        /\ ~IsThrow(result)
        /\ Shape(result) = ReferenceTree(1, Len(tokens))

\* tokens is `u a . b op x`: a unary operator on a member access, followed
\* by a binary operator weaker than the unary operator and an operand.
IsUnaryMemberThenWeaker ==
    /\ Len(tokens) = 6
    /\ tokens[1] \in UnaryOps /\ tokens[2] = "alnumus" /\ tokens[3] = "period"
    /\ tokens[4] = "alnumus" /\ tokens[5] \in BinaryOps
    /\ importance(tokens[5]) < importance(tokens[1])
    /\ associativity(tokens[5]) = "left_"
    /\ tokens[6] \in {"number_literal", "alnumus"}

\* C21: a prefix unary operator at the start of an expression applies to its
\* operand together with the stronger member postfix, never to a following
\* weaker binary operation: `!a.b + 1` yields (+ (! (. a b)) 1).
C21_UnaryStopsAtWeakerOperator ==
    (pc = "done" /\ IsUnaryMemberThenWeaker) =>
        Shape(result) = OpAt(5, <<OpAt(1, <<OpAt(3, <<Leaf(2), Leaf(4)>>)>>), Leaf(6)>>)

\* tokens is `a op x` for atoms a, x and a binary operator op.
IsOperation ==
    /\ Len(tokens) = 3
    /\ tokens[1] \in Atoms /\ tokens[2] \in BinaryOps /\ tokens[3] \in Atoms

\* The same operation with its operands exchanged.
Exchanged == <<tokens[3], tokens[2], tokens[1]>>

\* C22: the right operand of a binary operator may be any atom that is
\* accepted at the start of an expression: `a op x` is accepted exactly when
\* `x op a` is, and an atom is never rejected as right operand.
C22_RightOperandMayBeAnyAtom ==
    (pc = "done" /\ IsOperation) =>
        /\ IsThrow(result) <=> IsThrow(build_statement(Exchanged, 1, 4, nullopt))
        /\ ~IsThrow(result)

\* The block parse of the tokens after the first one, by the routine that
\* was performed.
RestOfBlock ==
    IF pc = "ParsePragmaticBlock"
    THEN ParsePragmaticBlock(Tail(tokens), 1, Len(tokens))
    ELSE ParseFunctionalBlock(Tail(tokens), 1, Len(tokens))

\* C23: an empty statement, a `;` with nothing before it, at the start of a
\* pragmatic or functional block is skipped: it adds no child, and the block
\* still succeeds with the statements that follow it when these are valid.
C23_EmptyStatementSkipped ==
    (/\ pc \in {"ParsePragmaticBlock", "ParseFunctionalBlock"}
     /\ tokens[1] = "eos"
     /\ RestOfBlock.valid) =>
        /\ result.valid
        /\ Len(result.node.ch) = Len(RestOfBlock.node.ch)

\* Position of the `{` that opens the body of the function statement the
\* tokens start with, or 0 when the statement has none.
BodyOpen ==
    IF \E p \in 1..Len(tokens) : tokens[p] = "open_list"
    THEN CHOOSE p \in 1..Len(tokens) :
             /\ tokens[p] = "open_list"
             /\ \A q \in 1..(p - 1) : tokens[q] # "open_list"
    ELSE 0

\* Position of the `}` that closes the body.
BodyClose ==
    IF \E p \in 1..Len(tokens) : tokens[p] = "close_list"
    THEN CHOOSE p \in 1..Len(tokens) :
             /\ tokens[p] = "close_list"
             /\ \A q \in (p + 1)..Len(tokens) : tokens[q] # "close_list"
    ELSE 0

\* The body of the function statement parsed as a functional block.
ParsedBody == ParseFunctionalBlock(tokens, BodyOpen + 1, BodyClose)

\* C24: a parse error inside a function body propagates: when the body does
\* not parse as a functional block ParseDirectiveFunc is not valid, no
\* accepted definition has a child of kind invalid_, and the body child of an
\* accepted definition is a functional block holding the parsed statements
\* of the body.
C24_BodyErrorPropagates ==
    (/\ pc = "ParseDirectiveFunc"
     /\ BodyOpen # 0 /\ BodyOpen < BodyClose
     /\ result.valid) =>
        /\ ParsedBody.valid
        /\ \A n \in Nodes(result.node) : n.type # "invalid_"
        /\ \E n \in Nodes(result.node) :
               /\ n.type = "functional_block_"
               /\ n.ch = ParsedBody.node.ch

\* The tokens from p on are an array type with an element type of one token
\* and a size: &array [ <type> , <number> ]
IsArrayType(p) ==
    /\ find_forward(tokens, p, <<"aarray_", "open_frame">>)
    /\ type_of(tokens, p + 2) \in {"alnumus", "aint_", "areal_"}
    /\ find_forward(tokens, p + 3, <<"comma", "number_literal", "close_frame">>)

\* n is an array node with its element type and its size.
IsArrayNode(n) == n.type = "aarray_" /\ Len(n.ch) = 2

\* C25: ParseCandiSpecialObject handles the array sigil: `&array[<type>,
\* <number>]`, alone or as the type expression of a type statement, is parsed
\* into an aarray node with two children.
C25_ArrayTypeParsed ==
    /\ (pc = "ParseCandiSpecialObject" /\ IsArrayType(1)) =>
           result.valid /\ IsArrayNode(result.node)
    /\ (/\ pc = "ParseDirectiveType"
        /\ find_forward(tokens, 1, <<"type_", "alnumus", "simple_assignment">>)
        /\ IsArrayType(4) /\ type_of(tokens, 10) = "eos") =>
           /\ result.valid
           /\ Len(result.node.ch) = 3
           /\ IsArrayNode(result.node.ch[3])

\* C26: ParseCsoPointer and ParseCsoArray accept a bracketed constraint only
\* when the `[` is closed by a `]` directly after the constraint: the last
\* token a success result has moved the cursor past is a close frame.
C26_ConstraintClosedByFrame ==
    (pc \in {"ParseCsoPointer", "ParseCsoArray"} /\ result.valid) =>
        type_of(tokens, result.it - 1) = "close_frame"

\* The tokens between the first and the last one.
Unwrapped == SubSeq(tokens, 2, Len(tokens) - 1)

RECURSIVE NestingAfter(_, _)
\* The number of parentheses open after the first n tokens of e, or -1 when
\* one of them closes a parenthesis that was not opened.
NestingAfter(e, n) ==
    IF n = 0 THEN 0
    ELSE LET before == NestingAfter(e, n - 1)
         IN  IF before < 0 THEN -1
             ELSE IF e[n] = "open_scope" THEN before + 1
             ELSE IF e[n] = "close_scope" THEN before - 1
             ELSE before

\* Every parenthesis of e has its partner in e.
ProperlyNested(e) == NestingAfter(e, Len(e)) = 0

RECURSIVE Shifted(_, _)
\* The tree n with every span moved d tokens to the right; a node without a
\* span stays without one.
Shifted(n, d) ==
    [type |-> n.type,
     tb |-> IF n.tb = 0 /\ n.te = 0 THEN 0 ELSE n.tb + d,
     te |-> IF n.tb = 0 /\ n.te = 0 THEN 0 ELSE n.te + d,
     ch |-> [i \in 1..Len(n.ch) |-> Shifted(n.ch[i], d)]]

\* The tree of the expression between the outer parentheses, built on its
\* own.
UnwrappedTree == build_statement(Unwrapped, 1, Len(Unwrapped) + 1, nullopt)

\* tokens is an accepted expression in one more pair of parentheses.
IsWrapped ==
    /\ Len(tokens) >= 3
    /\ tokens[1] = "open_scope" /\ tokens[Len(tokens)] = "close_scope"
    /\ ProperlyNested(Unwrapped)
    /\ ~IsThrow(UnwrappedTree)

\* C27: redundant outer parentheses do not change the result: an accepted
\* expression in one more pair of parentheses gives the tree of the
\* expression itself, at every depth of wrapping.
C27_OuterParenthesesRedundant ==
    (pc = "done" /\ IsWrapped) => result = Shifted(UnwrappedTree, 1)

\* `((a + 1))` is built: two pairs around an addition.
C27_Witness ==
    /\ pc = "done" /\ IsWrapped
    /\ Len(tokens) = 7 /\ tokens[2] = "open_scope" /\ tokens[4] = "addition"
    /\ result.type = "addition_" /\ Len(result.ch) = 2

\* tokens starts `a op f (` or `a op ! f (`: the right operand of the first
\* operator, a binary operator other than member access, is the identifier
\* at c, directly followed by a parenthesised argument list.
IsCallOperand(c) ==
    /\ c + 1 <= Len(tokens)
    /\ tokens[1] \in Atoms
    /\ tokens[2] \in BinaryOps \ {"period"}
    /\ tokens[c] = "alnumus" /\ tokens[c + 1] = "open_scope"
    /\ \/ c = 3
       \/ c = 4 /\ tokens[3] \in UnaryOps

\* The tree holds a call whose callee is the identifier at c.
HasCallOf(c) ==
    \E n \in Nodes(result) :
        /\ n.type = "function_call_"
        /\ Len(n.ch) >= 1
        /\ n.ch[1] = Node("alnumus_", c, c + 1)

\* C28: no call is silently discarded: when the right operand of a binary
\* operator is directly followed by a parenthesised argument list, the tree
\* of an accepted expression holds a function call for that operand.
C28_CallOperandKept ==
    (pc = "done" /\ ~IsThrow(result) /\ ProperlyNested(tokens)) =>
        \A c \in 1..Len(tokens) : IsCallOperand(c) => HasCallOf(c)

\* tokens is `a op ( e )`: a parenthesised expression as the right operand
\* of the only operator outside parentheses.
IsScopeOperand ==
    /\ Len(tokens) >= 5
    /\ tokens[1] = "alnumus" /\ tokens[2] \in BinaryOps \ {"period"}
    /\ tokens[3] = "open_scope" /\ tokens[Len(tokens)] = "close_scope"
    /\ ProperlyNested(SubSeq(tokens, 4, Len(tokens) - 1))

\* The tree of the expression inside the parentheses of the operand.
ScopeOperandTree == build_statement(tokens, 4, Len(tokens), nullopt)

\* C29: at the end of an expression a parenthesised right operand is found
\* and parsed the same way whatever the associativity of the operator:
\* `a op (e)` is the operator with children a and the tree of e.
C29_ScopeOperandParsed ==
    (pc = "done" /\ IsScopeOperand /\ ~IsThrow(ScopeOperandTree)) =>
        /\ result.type = NodeTypeOf(tokens[2])
        /\ result.ch = <<Node("alnumus_", 1, 2), ScopeOperandTree>>

\* A recursive call of build_statement begins strictly later than its
\* caller and does not end later; an iteration of a statement loop that does
\* not end the routine leaves the cursor strictly after its position.
StepProgress ==
    /\ (pc = "build_statement" /\ pc' = "build_statement") =>
           /\ result'.begin > result.begin
           /\ result'.end <= result.end
    /\ (pc \in {"ParsePragmaticBlock", "ParseFunctionalBlock"} /\ pc' = pc) =>
           result'.it > result.it

\* C30: every recursive call of build_statement is on a range that begins
\* strictly later than, or lies strictly inside, the range of its caller,
\* every iteration of a statement loop ends the routine or moves the cursor
\* strictly forward, and so every routine eventually returns or fails.
C30_EveryRoutineEnds == [][StepProgress]_vars /\ <>(pc = "returned")

\* A recursive call two tokens or more into the expression, or a statement
\* loop that has parsed two statements.
C30_Witness ==
    \/ pc = "build_statement" /\ result.begin > 2 /\ result.last_pass
    \/ /\ pc \in {"ParsePragmaticBlock", "ParseFunctionalBlock"}
       /\ Len(result.node.ch) = 2 /\ result.it > 2

====
